---- MODULE Spec2Model ----
(***************************************************************************)
(* Model of convert.py (IBKR Activity Statement -> TradingView CSV).       *)
(*                                                                         *)
(* A Python str is a sequence of one-character strings, so that strip,     *)
(* replace, concatenation, float() and the lexicographic order of the sort *)
(* are computed and not assumed.  The Chinese literals of the source are   *)
(* written in ASCII (the tools read ASCII only):                           *)
(*   section names  Trades = "交易", Cash = "存款和取款",                  *)
(*                  Dividends = "股息", Taxes = "代扣税"                   *)
(*   field names    AssetClass = "资产分类", Stock = "股票",               *)
(*                  Code = "代码", Currency = "货币", Quantity = "数量",   *)
(*                  TradePrice = "交易价格", CommTax = "佣金/税",          *)
(*                  DateTime = "日期/时间", Description = "描述",          *)
(*                  Amount = "金额", SettleDate = "结算日期", Date = "日期" *)
(*                                                                         *)
(* Three specifications share the module:                                  *)
(*   SpecHeader  the header-renaming loop of parse_activity_statement      *)
(*   SpecParse   parse_activity_statement, one CSV row per step            *)
(*   Spec        main: the exchange map, the converters record by record,  *)
(*               the merge (dedup, sort) and the write of the output       *)
(***************************************************************************)
EXTENDS Integers, Sequences, FiniteSets, TLC

VARIABLES
    \* parse_activity_statement
    sections, current_section, current_headers, row, lines,
    \* the header-renaming loop inside it
    raw_headers, seen_headers, deduped_hdr,
    \* main / process_activity_statement / converters
    pc, symbol_exchange_map, nfiles, stage, rows, all_rows, deduped, output,
    nrecs, r

parseVars == <<sections, current_section, current_headers, row, lines>>
hdrVars == <<raw_headers, seen_headers, deduped_hdr>>
mainVars == <<pc, symbol_exchange_map, nfiles, stage, rows, all_rows, deduped,
              output, nrecs, r>>
vars == <<parseVars, hdrVars, mainVars>>

----------------------------------------------------------------------------
(* Bounds of the model *)

MaxHdrLen == 3
MaxRows == 3
MaxRecords == 3
MaxFiles == 2

----------------------------------------------------------------------------
(* Python values *)

\* None / a value: an optional never compares a str with a list.
None == [some |-> FALSE, val |-> <<>>]
Some(x) == [some |-> TRUE, val |-> x]

Whitespace == {" ", "\t", "\n", "\r"}

RECURSIVE LStrip(_)
LStrip(s) == IF s # <<>> /\ Head(s) \in Whitespace THEN LStrip(Tail(s)) ELSE s

RECURSIVE RStrip(_)
RStrip(s) ==
    IF s # <<>> /\ s[Len(s)] \in Whitespace
    THEN RStrip(SubSeq(s, 1, Len(s) - 1))
    ELSE s

\* str.strip()
Strip(s) == RStrip(LStrip(s))

\* s[n:]
Drop(s, n) == SubSeq(s, n + 1, Len(s))

\* str.replace(old, new), old non-empty: leftmost matches, not overlapping
RECURSIVE Replace(_, _, _)
Replace(s, old, new) ==
    IF Len(s) < Len(old) THEN s
    ELSE IF SubSeq(s, 1, Len(old)) = old
         THEN new \o Replace(Drop(s, Len(old)), old, new)
         ELSE <<Head(s)>> \o Replace(Tail(s), old, new)

Digit == {"0", "1", "2", "3", "4", "5", "6", "7", "8", "9"}

DigitVal(c) ==
    CASE c = "0" -> 0 [] c = "1" -> 1 [] c = "2" -> 2 [] c = "3" -> 3
      [] c = "4" -> 4 [] c = "5" -> 5 [] c = "6" -> 6 [] c = "7" -> 7
      [] c = "8" -> 8 [] c = "9" -> 9

\* the code point of a character (the order of str comparison)
Ord(c) ==
    CASE c = " " -> 32
      [] c = "," -> 44
      [] c = "-" -> 45
      [] c \in Digit -> 48 + DigitVal(c)
      [] c = ":" -> 58
      [] OTHER -> 95

\* a < b for str: lexicographic by code point, a proper prefix first
RECURSIVE StrLess(_, _)
StrLess(a, b) ==
    IF b = <<>> THEN FALSE
    ELSE IF a = <<>> THEN TRUE
    ELSE IF Head(a) = Head(b) THEN StrLess(Tail(a), Tail(b))
    ELSE Ord(Head(a)) < Ord(Head(b))

\* str(n) for n >= 0
RECURSIVE Digits(_)
Digits(n) ==
    IF n < 10 THEN <<ToString(n)>>
    ELSE Digits(n \div 10) \o <<ToString(n % 10)>>

----------------------------------------------------------------------------
(* parse_activity_statement: the header-renaming loop (lines 86-94) *)

A == <<"A">>
B == <<"B">>
A_2 == <<"A", "_", "2">>

RECURSIVE SeqsUpTo(_, _)
SeqsUpTo(S, n) ==
    IF n = 0 THEN {<<>>}
    ELSE LET shorter == SeqsUpTo(S, n - 1)
         IN  shorter \cup {Append(s, x) : s \in {t \in shorter : Len(t) = n - 1}, x \in S}

RawHeaderLists == SeqsUpTo({A, A_2, B}, MaxHdrLen)

\* seen_headers is a dict name -> count: a function on the names seen
DictSet(d, k, v) == [x \in DOMAIN d \cup {k} |-> IF x = k THEN v ELSE d[x]]

EmptyDict == [x \in {} |-> 0]

\* one iteration of "for h in raw_headers" on the pair (seen_headers, deduped)
DedupOne(st, h) ==
    IF h \in DOMAIN st.seen
    THEN LET n == st.seen[h] + 1
         IN  [seen |-> DictSet(st.seen, h, n),
              deduped |-> Append(st.deduped, h \o <<"_">> \o Digits(n))]
    ELSE [seen |-> DictSet(st.seen, h, 1),
          deduped |-> Append(st.deduped, h)]

RECURSIVE DedupLoop(_, _)
DedupLoop(st, hs) ==
    IF hs = <<>> THEN st ELSE DedupLoop(DedupOne(st, Head(hs)), Tail(hs))

\* the value assigned to current_headers for a Header row
DedupHeaders(hs) == DedupLoop([seen |-> EmptyDict, deduped |-> <<>>], hs).deduped

----------------------------------------------------------------------------
(* SpecHeader: the loop "for h in raw_headers" run one iteration per step *)

InitHeader ==
    /\ raw_headers \in RawHeaderLists
    /\ seen_headers = EmptyDict
    /\ deduped_hdr = <<>>

\* the loop at rest
IdleHeader ==
    /\ raw_headers = <<>>
    /\ seen_headers = EmptyDict
    /\ deduped_hdr = <<>>

\* lines 88-94, for h = raw_headers[Len(deduped_hdr) + 1]
DedupStep ==
    /\ Len(deduped_hdr) < Len(raw_headers)
    /\ LET st == DedupOne([seen |-> seen_headers, deduped |-> deduped_hdr],
                          raw_headers[Len(deduped_hdr) + 1])
       IN  /\ seen_headers' = st.seen
           /\ deduped_hdr' = st.deduped
    /\ UNCHANGED raw_headers

----------------------------------------------------------------------------
(* SpecParse: parse_activity_statement, one row of csv.reader per step *)

HeaderKw == <<"H", "e", "a", "d", "e", "rw">>
DataKw == <<"D", "a", "t", "a">>
TotalKw == <<"T", "o", "t", "a", "l">>

TagT == <<"T">>
TagU == <<"U">>

HeaderFieldLists == {<<>>, <<A>>, <<A, A>>, <<A, A, A_2>>}

DataFieldLists ==
    {<<>>, << <<"1">> >>, << <<"1">>, <<"2">>, <<"3">> >>,
     << <<"1">>, <<"2">>, <<"3">>, <<"4">> >>}

\* the rows a file may hold: well-formed ones, rows padded with blanks around
\* the tag and the row kind, rows with fewer than 2 fields, an unknown kind
ParseRows ==
    {<<t, HeaderKw>> \o h : t \in {TagT, TagU}, h \in HeaderFieldLists}
    \cup {<<t, DataKw>> \o d : t \in {TagT, TagU}, d \in DataFieldLists}
    \cup {<<>>, <<TagT>>, <<TagT, TotalKw, <<"1">> >>,
          <<<<" ", "T", " ">>, <<" ">> \o DataKw, <<"9">> >>,
          <<<<"U", " ">>, HeaderKw \o <<" ">>, B>>}

\* while len(data) < len(current_headers): data.append("")
RECURSIVE Pad(_, _)
Pad(data, n) == IF Len(data) < n THEN Pad(Append(data, <<>>), n) ELSE data

\* dict(zip(current_headers, data)): zip stops at the shorter list and a
\* repeated key keeps the value of its last position
MakeRecord(headers, data) ==
    LET padded == Pad(data, Len(headers))
        LastAt(k) == CHOOSE i \in 1..Len(headers) :
                        /\ headers[i] = k
                        /\ \A j \in (i + 1)..Len(headers) : headers[j] # k
    IN  [k \in {headers[i] : i \in 1..Len(headers)} |-> padded[LastAt(k)]]

\* lines 70-72; row is the loop variable, lines the rows read so far
InitParse ==
    /\ sections = EmptyDict
    /\ current_section = None
    /\ current_headers = None
    /\ row = <<>>
    /\ lines = <<>>

\* line 82
IsHeaderRow(rw) == Len(rw) >= 2 /\ Strip(rw[2]) = HeaderKw

\* line 98 with "current_headers is not None" for the truth test
DataAccepted_NotNone(rw) ==
    /\ Len(rw) >= 2
    /\ Strip(rw[2]) = DataKw
    /\ current_section = Some(Strip(rw[1]))
    /\ current_headers.some

\* line 98: None and [] are both false
DataAccepted(rw) ==
    /\ Len(rw) >= 2
    /\ Strip(rw[2]) = DataKw
    /\ current_section = Some(Strip(rw[1]))
    /\ current_headers.some
    /\ current_headers.val # <<>>

\* lines 83-97 with line 95 moved under the "if" of line 96
HeaderRowEffect_Stale(rw) ==
    LET section == Strip(rw[1])
    IN  /\ current_section' = Some(section)
        /\ current_headers' = IF section \in DOMAIN sections
                               THEN current_headers
                               ELSE Some(DedupHeaders(Drop(rw, 2)))
        /\ sections' = IF section \in DOMAIN sections
                       THEN sections
                       ELSE DictSet(sections, section, <<>>)

\* lines 83-97 without the "if" of line 96
HeaderRowEffect_Reset(rw) ==
    LET section == Strip(rw[1])
    IN  /\ current_section' = Some(section)
        /\ current_headers' = Some(DedupHeaders(Drop(rw, 2)))
        /\ sections' = DictSet(sections, section, <<>>)

\* lines 83-97
HeaderRowEffect(rw) ==
    LET section == Strip(rw[1])
    IN  /\ current_section' = Some(section)
        /\ current_headers' = Some(DedupHeaders(Drop(rw, 2)))
        /\ sections' = IF section \in DOMAIN sections
                       THEN sections
                       ELSE DictSet(sections, section, <<>>)

\* lines 99-104
DataRowEffect(rw) ==
    LET section == Strip(rw[1])
        record == MakeRecord(current_headers.val, Drop(rw, 2))
    IN  /\ sections' = DictSet(sections, section, Append(sections[section], record))
        /\ UNCHANGED <<current_section, current_headers>>

\* line 76: the reader yields the next row
Consume(rw) ==
    /\ Len(lines) < MaxRows
    /\ row' = rw
    /\ lines' = Append(lines, rw)
    /\ UNCHANGED <<hdrVars, mainVars>>

\* lines 77-78
SkipShortRow ==
    \E rw \in ParseRows :
        /\ Consume(rw)
        /\ Len(rw) < 2
        /\ UNCHANGED <<sections, current_section, current_headers>>

\* lines 79-97
ReadHeaderRow ==
    \E rw \in ParseRows :
        /\ Consume(rw)
        /\ IsHeaderRow(rw)
        /\ HeaderRowEffect(rw)

\* lines 79-80, 98-104
ReadDataRow ==
    \E rw \in ParseRows :
        /\ Consume(rw)
        /\ ~IsHeaderRow(rw)
        /\ DataAccepted(rw)
        /\ DataRowEffect(rw)

\* lines 79-80, 82, 98: neither branch taken
SkipOtherRow ==
    \E rw \in ParseRows :
        /\ Consume(rw)
        /\ Len(rw) >= 2
        /\ ~IsHeaderRow(rw)
        /\ ~DataAccepted(rw)
        /\ UNCHANGED <<sections, current_section, current_headers>>

----------------------------------------------------------------------------
(* Python float: a finite value (integers suffice here) or a NaN.  A NaN   *)
(* equals only the very same object (set membership and tuple comparison   *)
(* test identity before ==), so each NaN carries the identity of the       *)
(* object, id; finite values have id 0 and compare by value.               *)

Float(v) == [nan |-> FALSE, v |-> v, id |-> 0]
NaN(id) == [nan |-> TRUE, v |-> 0, id |-> id]

\* x > 0, x >= 0, x <= 0: every comparison with a NaN is false
Positive(x) == ~x.nan /\ x.v > 0
NonNegative(x) == ~x.nan /\ x.v >= 0
NonPositive(x) == ~x.nan /\ x.v <= 0

\* abs(x): a new float object
Abs(x, id) == IF x.nan THEN NaN(id) ELSE Float(IF x.v < 0 THEN -x.v ELSE x.v)

RECURSIVE DecVal(_)
DecVal(ds) ==
    IF ds = <<>> THEN 0 ELSE 10 * DecVal(SubSeq(ds, 1, Len(ds) - 1)) + DigitVal(ds[Len(ds)])

\* float(s) on the texts of the model: blanks around, an optional sign, then
\* decimal digits or "nan"; anything else raises ValueError (ok = FALSE)
ParseFloat(s, id) ==
    LET t == Strip(s)
        signed == t # <<>> /\ Head(t) \in {"+", "-"}
        body == IF signed THEN Tail(t) ELSE t
    IN  IF body = <<"n", "a", "n">> THEN [ok |-> TRUE, f |-> NaN(id)]
        ELSE IF body # <<>> /\ \A i \in 1..Len(body) : body[i] \in Digit
        THEN [ok |-> TRUE,
              f |-> Float(IF signed /\ Head(t) = "-" THEN -DecVal(body) ELSE DecVal(body))]
        ELSE [ok |-> FALSE, f |-> Float(0)]

----------------------------------------------------------------------------
(* build_symbol_exchange_map and get_tv_symbol *)

NASDAQ == <<"N", "A", "S", "D", "A", "Q">>
NYSE == <<"N", "Y", "S", "E">>
AMEX == <<"A", "M", "E", "X">>
SEHK == <<"S", "E", "H", "K">>
HKEX == <<"H", "K", "E", "X">>
ARCA == <<"A", "R", "C", "A">>
HKD == <<"H", "K", "D">>
USD == <<"U", "S", "D">>
AAPL == <<"A", "A", "P", "L">>
MSFT == <<"M", "S", "F", "T">>

\* lines 26-32
EXCHANGE_MAP ==
    (NASDAQ :> NASDAQ) @@ (NYSE :> NYSE) @@ (AMEX :> AMEX) @@ (SEHK :> HKEX)
        @@ (ARCA :> AMEX)

\* d.get(k, default)
GetOr(d, k, default) == IF k \in DOMAIN d THEN d[k] ELSE default

\* lines 43-48 for one file: rows of (Symbol, ListingExchange)
RECURSIVE FlexRows(_, _)
FlexRows(mapping, frows) ==
    IF frows = <<>> THEN mapping
    ELSE LET sym == Strip(Head(frows)[1])
             ex == Strip(Head(frows)[2])
         IN  FlexRows(IF sym # <<>> /\ ex # <<>> /\ sym \notin DOMAIN mapping
                      THEN DictSet(mapping, sym, GetOr(EXCHANGE_MAP, ex, ex))
                      ELSE mapping,
                      Tail(frows))

\* lines 39-49
RECURSIVE BuildSymbolExchangeMap(_, _)
BuildSymbolExchangeMap(mapping, flex_files) ==
    IF flex_files = <<>> THEN mapping
    ELSE BuildSymbolExchangeMap(FlexRows(mapping, Head(flex_files)), Tail(flex_files))

\* the --flex arguments of a run: two files that disagree on AAPL, the first
\* with a row without symbol; MSFT is in neither
FlexInputs ==
    {<< << <<<<" ">>, NYSE>>, <<AAPL \o <<" ">>, ARCA>> >>, << <<AAPL, NYSE>> >> >>}

\* lines 56-59
get_tv_symbol(symbol, currency, map) ==
    IF currency = HKD
    THEN HKEX \o <<":">> \o symbol
    ELSE GetOr(map, symbol, NASDAQ) \o <<":">> \o symbol

----------------------------------------------------------------------------
(* The converters.  A raw record is a dict field name -> text, as           *)
(* parse_activity_statement builds it; a normalized record is the dict of   *)
(* lines 131-138 with the keys of TV_FIELDNAMES (FillPrice is "Fill Price", *)
(* ClosingTime is "Closing Time").  Commission is "" or a float: <<>> or    *)
(* <<f>>.  The outcome of one loop iteration is skip (continue), raise (an  *)
(* exception leaves the converter) or emit (rows.append).                   *)

DataDiscriminator == <<"D", "a", "t", "a", "D", "i", "s", "c", "r", "i", "m", "i", "n", "a", "t", "o", "r">>
AssetClass == <<"A", "s", "s", "e", "t", "C", "l", "a", "s", "s">>
Currency == <<"C", "u", "r", "r", "e", "n", "c", "y">>
Code == <<"C", "o", "d", "e">>
DateTime == <<"D", "a", "t", "e", "T", "i", "m", "e">>
Quantity == <<"Q", "u", "a", "n", "t", "i", "t", "y">>
TradePrice == <<"T", "r", "a", "d", "e", "P", "r", "i", "c", "e">>
CommTax == <<"C", "o", "m", "m", "T", "a", "x">>
Description == <<"D", "e", "s", "c", "r", "i", "p", "t", "i", "o", "n">>
Amount == <<"A", "m", "o", "u", "n", "t">>
SettleDate == <<"S", "e", "t", "t", "l", "e", "D", "a", "t", "e">>
Date == <<"D", "a", "t", "e">>

Order == <<"O", "r", "d", "e", "r">>
Stock == <<"S", "t", "o", "c", "k">>
CASH == <<"$", "C", "A", "S", "H">>
Midnight == <<" ", "0", ":", "0", "0", ":", "0", "0">>

Skip == [out |-> "skip"]
Raise == [out |-> "raise"]
Emit(rec) == [out |-> "emit", rec |-> rec]

\* lines 113-138 with "qty_raw >= 0" for the side
ConvertTrade_ZeroBuys(rr, map, id) ==
    IF GetOr(rr, DataDiscriminator, <<>>) # Order THEN Skip
    ELSE IF GetOr(rr, AssetClass, <<>>) # Stock THEN Skip
    ELSE IF ~({Code, Currency, Quantity, TradePrice, CommTax, DateTime} \subseteq DOMAIN rr)
    THEN Raise
    ELSE LET qty_raw == ParseFloat(rr[Quantity], id)
             comm == ParseFloat(rr[CommTax], id)
         IN  IF ~qty_raw.ok THEN Raise
             ELSE IF Strip(rr[CommTax]) # <<>> /\ ~comm.ok THEN Raise
             ELSE Emit([Symbol |-> get_tv_symbol(Strip(rr[Code]), Strip(rr[Currency]), map),
                        Side |-> IF NonNegative(qty_raw.f) THEN "Buy" ELSE "Sell",
                        Qty |-> Abs(qty_raw.f, id),
                        FillPrice |-> Strip(rr[TradePrice]),
                        Commission |-> IF Strip(rr[CommTax]) # <<>>
                                       THEN <<Abs(comm.f, id)>>
                                       ELSE <<>>,
                        ClosingTime |-> Replace(Strip(rr[DateTime]), <<",", " ">>, <<" ">>)])

\* lines 113-138: one iteration of convert_trades.  r.get(k) of a missing
\* key is None, which differs from every text; r[k] of a missing key raises.
ConvertTrade(rr, map, id) ==
    IF GetOr(rr, DataDiscriminator, <<>>) # Order THEN Skip
    ELSE IF GetOr(rr, AssetClass, <<>>) # Stock THEN Skip
    ELSE IF ~({Code, Currency, Quantity, TradePrice, CommTax, DateTime} \subseteq DOMAIN rr)
    THEN Raise
    ELSE LET qty_raw == ParseFloat(rr[Quantity], id)
             comm == ParseFloat(rr[CommTax], id)
         IN  IF ~qty_raw.ok THEN Raise
             ELSE IF Strip(rr[CommTax]) # <<>> /\ ~comm.ok THEN Raise
             ELSE Emit([Symbol |-> get_tv_symbol(Strip(rr[Code]), Strip(rr[Currency]), map),
                        Side |-> IF Positive(qty_raw.f) THEN "Buy" ELSE "Sell",
                        Qty |-> Abs(qty_raw.f, id),
                        FillPrice |-> Strip(rr[TradePrice]),
                        Commission |-> IF Strip(rr[CommTax]) # <<>>
                                       THEN <<Abs(comm.f, id)>>
                                       ELSE <<>>,
                        ClosingTime |-> Replace(Strip(rr[DateTime]), <<",", " ">>, <<" ">>)])

\* the timestamp of the cash sections: dt, and dt + " 0:00:00" when not empty
DateStamp(rr, key) ==
    LET dt == Strip(GetOr(rr, key, <<>>))
    IN  IF dt # <<>> THEN dt \o Midnight ELSE dt

CashRecord(side, qty, dt) ==
    [Symbol |-> CASH, Side |-> side, Qty |-> qty, FillPrice |-> <<>>,
     Commission |-> <<>>, ClosingTime |-> dt]

\* lines 150-175: one iteration of convert_cash_transactions
ConvertCash(rr, id) ==
    IF Strip(GetOr(rr, Description, <<>>)) = <<>> THEN Skip
    ELSE IF Strip(GetOr(rr, Amount, <<>>)) = <<>> THEN Skip
    ELSE LET amount == ParseFloat(Strip(GetOr(rr, Amount, <<>>)), id)
         IN  IF ~amount.ok THEN Raise
             ELSE IF Positive(amount.f)
             THEN Emit(CashRecord("Deposit", amount.f, DateStamp(rr, SettleDate)))
             ELSE Emit(CashRecord("Withdrawal", Abs(amount.f, id), DateStamp(rr, SettleDate)))

\* lines 183-204: one iteration of convert_dividends
ConvertDividend(rr, id) ==
    IF Strip(GetOr(rr, Description, <<>>)) = <<>> THEN Skip
    ELSE IF Strip(GetOr(rr, Amount, <<>>)) = <<>> THEN Skip
    ELSE LET amount == ParseFloat(Strip(GetOr(rr, Amount, <<>>)), id)
         IN  IF ~amount.ok THEN Raise
             ELSE IF NonPositive(amount.f) THEN Skip
             ELSE Emit(CashRecord("Dividend", amount.f, DateStamp(rr, Date)))

\* lines 212-233: one iteration of convert_taxes
ConvertTax(rr, id) ==
    IF Strip(GetOr(rr, Description, <<>>)) = <<>> THEN Skip
    ELSE IF Strip(GetOr(rr, Amount, <<>>)) = <<>> THEN Skip
    ELSE LET amount == ParseFloat(Strip(GetOr(rr, Amount, <<>>)), id)
         IN  IF ~amount.ok THEN Raise
             ELSE IF NonNegative(amount.f) THEN Skip
             ELSE Emit(CashRecord("Taxes and fees", Abs(amount.f, id), DateStamp(rr, Date)))

----------------------------------------------------------------------------
(* The merge of main: lines 270-276 (dedup) and line 279 (sort) *)

\* line 273
Key(rec) == <<rec.Symbol, rec.Side, rec.Qty, rec.FillPrice, rec.ClosingTime>>

\* lines 272-276 without "seen.add(key)"
RECURSIVE DedupRows_SeenNotUpdated(_, _, _)
DedupRows_SeenNotUpdated(seen, out, rest) ==
    IF rest = <<>> THEN out
    ELSE IF Key(Head(rest)) \notin seen
         THEN DedupRows_SeenNotUpdated(seen, Append(out, Head(rest)), Tail(rest))
         ELSE DedupRows_SeenNotUpdated(seen, out, Tail(rest))

\* lines 272-276 with the Commission in the key
RECURSIVE DedupRows_KeyWithCommission(_, _, _)
DedupRows_KeyWithCommission(seen, out, rest) ==
    IF rest = <<>> THEN out
    ELSE LET key == <<Key(Head(rest)), Head(rest).Commission>>
         IN  IF key \notin seen
             THEN DedupRows_KeyWithCommission(seen \cup {key}, Append(out, Head(rest)),
                                              Tail(rest))
             ELSE DedupRows_KeyWithCommission(seen, out, Tail(rest))

\* lines 272-276: the loop over all_rows on (seen, deduped)
RECURSIVE DedupRows(_, _, _)
DedupRows(seen, out, rest) ==
    IF rest = <<>> THEN out
    ELSE LET key == Key(Head(rest))
         IN  IF key \notin seen
             THEN DedupRows(seen \cup {key}, Append(out, Head(rest)), Tail(rest))
             ELSE DedupRows(seen, out, Tail(rest))

\* line 279: the key of the sort
SortKey(rec) == IF rec.ClosingTime # <<>> THEN rec.ClosingTime ELSE <<>>

\* a sort that puts a record before the records of equal key
RECURSIVE InsertByTime_BeforeEqual(_, _)
InsertByTime_BeforeEqual(sorted, rec) ==
    IF sorted = <<>> THEN <<rec>>
    ELSE IF ~StrLess(SortKey(Head(sorted)), SortKey(rec))
         THEN <<rec>> \o sorted
         ELSE <<Head(sorted)>> \o InsertByTime_BeforeEqual(Tail(sorted), rec)

\* list.sort is stable: a record goes behind the records of smaller or
\* equal key and before the first one of greater key
RECURSIVE InsertByTime(_, _)
InsertByTime(sorted, rec) ==
    IF sorted = <<>> THEN <<rec>>
    ELSE IF StrLess(SortKey(rec), SortKey(Head(sorted)))
         THEN <<rec>> \o sorted
         ELSE <<Head(sorted)>> \o InsertByTime(Tail(sorted), rec)

\* line 279
RECURSIVE SortByTime(_, _)
SortByTime(sorted, rest) ==
    IF rest = <<>> THEN sorted
    ELSE SortByTime(InsertByTime(sorted, Head(rest)), Tail(rest))

----------------------------------------------------------------------------
(* The inputs of main: the records the sections of a file may hold *)

SubTotal == <<"S", "u", "b", "T", "o", "t", "a", "l">>
Option == <<"O", "p", "t", "i", "o", "n">>
T1 == <<"1", "-", "0", "1", ",", " ", "1", "0", ":", "0", "0">>
T2 == <<"1", "-", "0", "2", ",", " ", "0", "9", ":", "3", "0">>
D2 == <<"1", "-", "0", "2">>
Desc == <<"d">>

TradesHeader ==
    <<DataDiscriminator, AssetClass, Currency, Code, DateTime, Quantity, TradePrice, CommTax>>

TradeRow(disc, asset, cur, code, dt, qty, comm) ==
    MakeRecord(TradesHeader, <<disc, asset, cur, code, dt, qty, <<"5">>, comm>>)

\* sections.get("Trades", []): orders with the quantities 1, -1, 0, nan and
\* an unparsable one, commissions -1, -2 and blank, two times, two symbols,
\* two currencies; a subtotal row, an option, a record without the columns
TradeRecords ==
    {TradeRow(Order, Stock, USD, AAPL, T2, q, <<"-", "1">>) :
        q \in {<<"1">>, <<"0">>, <<"n", "a", "n">>, <<"x">>}}
    \cup {TradeRow(Order, Stock, USD, MSFT, T2, <<"-", "1">>, <<"-", "1">>),
          TradeRow(Order, Stock, USD, AAPL, T2, <<"1">>, <<"-", "2">>),
          TradeRow(Order, Stock, HKD, AAPL, T1, <<" ", "1", " ">>, <<>>),
          TradeRow(SubTotal, Stock, USD, AAPL, T2, <<"2">>, <<"-", "1">>),
          TradeRow(Order, Option, USD, AAPL, T2, <<"2">>, <<"-", "1">>),
          MakeRecord(<<DataDiscriminator, AssetClass>>, <<Order, Stock>>)}

CashRow(header, desc, amount, dt) == MakeRecord(header, <<desc, amount, dt>>)

\* sections.get("Cash", [])
CashRecords ==
    {CashRow(<<Description, Amount, SettleDate>>, Desc, a, D2) : a \in {<<"1">>, <<"-", "1">>, <<>>}}
    \cup {CashRow(<<Description, Amount, SettleDate>>, Desc, <<"1">>, <<>>),
          CashRow(<<Description, Amount, SettleDate>>, <<>>, <<"1">>, D2)}

\* sections.get("Dividends", [])
DividendRecords ==
    {CashRow(<<Description, Amount, Date>>, Desc, a, D2) : a \in {<<"1">>, <<"-", "1">>, <<"n", "a", "n">>}}

\* sections.get("Taxes", [])
TaxRecords ==
    {CashRow(<<Description, Amount, Date>>, Desc, a, D2) : a \in {<<"-", "1">>, <<"0">>}}

----------------------------------------------------------------------------
(* Spec: main.  pc is the position in main: "flex" (line 258), "files" (the *)
(* loop of lines 262-267), "sort" (line 279), "write" (line 281), "done",   *)
(* or "aborted" when an exception left main.  stage is the position in      *)
(* process_activity_statement: 0 outside of it, 1..4 the converter of lines *)
(* 242-245 whose loop runs.  rows is the local list of                      *)
(* process_activity_statement and r the loop variable of the converters:    *)
(* both end with the call (they are empty outside of it).  nrecs is the     *)
(* number of records the converters have read.                              *)

Init ==
    /\ pc = "flex"
    /\ symbol_exchange_map = EmptyDict
    /\ nfiles = 0
    /\ stage = 0
    /\ rows = <<>>
    /\ all_rows = <<>>
    /\ deduped = <<>>
    /\ output = None
    /\ nrecs = 0
    /\ r = EmptyDict
    /\ InitParse
    /\ IdleHeader

\* line 258
BuildMap ==
    /\ pc = "flex"
    /\ \E flex \in FlexInputs :
        symbol_exchange_map' = BuildSymbolExchangeMap(EmptyDict, flex)
    /\ pc' = "files"
    /\ UNCHANGED <<nfiles, stage, rows, all_rows, deduped, output, nrecs, r>>
    /\ UNCHANGED <<parseVars, hdrVars>>

\* line 41: open() of a --flex file raises
FlexUnreadable ==
    /\ pc = "flex"
    /\ pc' = "aborted"
    /\ UNCHANGED <<symbol_exchange_map, nfiles, stage, rows, all_rows, deduped, output,
                   nrecs, r>>
    /\ UNCHANGED <<parseVars, hdrVars>>

\* lines 262-263, 239-240: the next input is opened and parsed
OpenFile ==
    /\ pc = "files" /\ stage = 0 /\ nfiles < MaxFiles
    /\ stage' = 1
    /\ rows' = <<>>
    /\ UNCHANGED <<pc, symbol_exchange_map, nfiles, all_rows, deduped, output, nrecs, r>>
    /\ UNCHANGED <<parseVars, hdrVars>>

\* line 74: open() of an input raises
FileUnreadable ==
    /\ pc = "files" /\ stage = 0 /\ nfiles < MaxFiles
    /\ pc' = "aborted"
    /\ UNCHANGED <<symbol_exchange_map, nfiles, stage, rows, all_rows, deduped, output,
                   nrecs, r>>
    /\ UNCHANGED <<parseVars, hdrVars>>

\* one iteration of a converter's loop over the record rr, with outcome res
ConverterStep(rr, res, st) ==
    /\ pc = "files" /\ stage >= 1 /\ stage <= st
    /\ nrecs < MaxRecords
    /\ r' = rr
    /\ nrecs' = nrecs + 1
    /\ stage' = st
    /\ rows' = IF res.out = "emit" THEN Append(rows, res.rec) ELSE rows
    /\ pc' = IF res.out = "raise" THEN "aborted" ELSE pc
    /\ UNCHANGED <<symbol_exchange_map, nfiles, all_rows, deduped, output>>
    /\ UNCHANGED <<parseVars, hdrVars>>

\* line 242
ConvertTradesStep ==
    \E rr \in TradeRecords :
        ConverterStep(rr, ConvertTrade(rr, symbol_exchange_map, nrecs + 1), 1)

\* line 243
ConvertCashStep ==
    \E rr \in CashRecords : ConverterStep(rr, ConvertCash(rr, nrecs + 1), 2)

\* line 244
ConvertDividendsStep ==
    \E rr \in DividendRecords : ConverterStep(rr, ConvertDividend(rr, nrecs + 1), 3)

\* line 245
ConvertTaxesStep ==
    \E rr \in TaxRecords : ConverterStep(rr, ConvertTax(rr, nrecs + 1), 4)

\* lines 247, 263-267 with the output written after each file
EndFile_WritesOutput ==
    /\ pc = "files" /\ stage >= 1
    /\ all_rows' = all_rows \o rows
    /\ stage' = 0
    /\ nfiles' = nfiles + 1
    /\ output' = Some(all_rows \o rows)
    /\ rows' = <<>>
    /\ r' = EmptyDict
    /\ UNCHANGED <<pc, symbol_exchange_map, deduped, nrecs>>
    /\ UNCHANGED <<parseVars, hdrVars>>

\* lines 247, 263-267: the file's rows are returned and appended
EndFile ==
    /\ pc = "files" /\ stage >= 1
    /\ all_rows' = all_rows \o rows
    /\ stage' = 0
    /\ nfiles' = nfiles + 1
    /\ rows' = <<>>
    /\ r' = EmptyDict
    /\ UNCHANGED <<pc, symbol_exchange_map, deduped, output, nrecs>>
    /\ UNCHANGED <<parseVars, hdrVars>>

\* lines 270-276, once the loop over the inputs (at least one) has ended
Dedup ==
    /\ pc = "files" /\ stage = 0 /\ nfiles >= 1
    /\ deduped' = DedupRows({}, <<>>, all_rows)
    /\ pc' = "sort"
    /\ UNCHANGED <<symbol_exchange_map, nfiles, stage, rows, all_rows, output, nrecs, r>>
    /\ UNCHANGED <<parseVars, hdrVars>>

\* line 279
Sort ==
    /\ pc = "sort"
    /\ deduped' = SortByTime(<<>>, deduped)
    /\ pc' = "write"
    /\ UNCHANGED <<symbol_exchange_map, nfiles, stage, rows, all_rows, output, nrecs, r>>
    /\ UNCHANGED <<parseVars, hdrVars>>

\* lines 281-284
WriteOutput ==
    /\ pc = "write"
    /\ output' = Some(deduped)
    /\ pc' = "done"
    /\ UNCHANGED <<symbol_exchange_map, nfiles, stage, rows, all_rows, deduped, nrecs, r>>
    /\ UNCHANGED <<parseVars, hdrVars>>

Next ==
    \/ BuildMap
    \/ FlexUnreadable
    \/ OpenFile
    \/ FileUnreadable
    \/ ConvertTradesStep
    \/ ConvertCashStep
    \/ ConvertDividendsStep
    \/ ConvertTaxesStep
    \/ EndFile
    \/ Dedup
    \/ Sort
    \/ WriteOutput

Spec == Init /\ [][Next]_vars

----------------------------------------------------------------------------
(* The specifications of the parser *)

IdleMain ==
    /\ pc = "idle"
    /\ symbol_exchange_map = EmptyDict
    /\ nfiles = 0
    /\ stage = 0
    /\ rows = <<>>
    /\ all_rows = <<>>
    /\ deduped = <<>>
    /\ output = None
    /\ nrecs = 0
    /\ r = EmptyDict

NextHeader == DedupStep /\ UNCHANGED <<parseVars, mainVars>>

InitSpecHeader == InitHeader /\ InitParse /\ IdleMain

SpecHeader == InitSpecHeader /\ [][NextHeader]_vars

NextParse == SkipShortRow \/ ReadHeaderRow \/ ReadDataRow \/ SkipOtherRow

InitSpecParse == InitParse /\ IdleHeader /\ IdleMain

SpecParse == InitSpecParse /\ [][NextParse]_vars

----------------------------------------------------------------------------
(* Properties of the header-renaming loop, checked under SpecHeader *)

\* the number of positions 1..i of hs that hold the name hs[i]
Occurrence(hs, i) == Cardinality({j \in 1..i : hs[j] = hs[i]})

HeaderLoopDone == Len(deduped_hdr) = Len(raw_headers)

\* C5: once the loop has run over a raw header list, the result has the
\* length and order of the raw list, the first occurrence of a name is
\* unchanged, the k-th occurrence (k >= 2) of X is X_k, and the names of the
\* result are pairwise distinct.
C5_HeaderNamesUnique ==
    HeaderLoopDone =>
        /\ \A i \in 1..Len(raw_headers) :
            deduped_hdr[i] =
                IF Occurrence(raw_headers, i) = 1
                THEN raw_headers[i]
                ELSE raw_headers[i] \o <<"_">> \o Digits(Occurrence(raw_headers, i))
        /\ \A i, j \in 1..Len(deduped_hdr) : i # j => deduped_hdr[i] # deduped_hdr[j]

----------------------------------------------------------------------------
(* Properties of parse_activity_statement, checked under SpecParse.  They  *)
(* speak of the rows read before the step (lines) and of the row the step  *)
(* reads (row').                                                           *)

IsDataRow(rw) == Len(rw) >= 2 /\ Strip(rw[2]) = DataKw

\* the position in ls of the last Header row, 0 when there is none
LastHeader(ls) ==
    LET H == {i \in 1..Len(ls) : IsHeaderRow(ls[i])}
    IN  IF H = {} THEN 0 ELSE CHOOSE i \in H : \A j \in H : j <= i

\* the position in ls of the last Header row with tag t, 0 when there is none
LastHeaderOfTag(ls, t) ==
    LET H == {i \in 1..Len(ls) : IsHeaderRow(ls[i]) /\ Strip(ls[i][1]) = t}
    IN  IF H = {} THEN 0 ELSE CHOOSE i \in H : \A j \in H : j <= i

\* the record a Data row rw gives under the Header row h
RecordUnder(h, rw) == MakeRecord(DedupHeaders(Drop(h, 2)), Drop(rw, 2))

\* the step appends exactly rec to the list of tag t and touches nothing else
AppendsTo(t, rec) ==
    /\ t \in DOMAIN sections
    /\ sections' = DictSet(sections, t, Append(sections[t], rec))

\* the step appends exactly one record to the list of tag t
AppendsOneTo(t) ==
    /\ t \in DOMAIN sections
    /\ DOMAIN sections' = DOMAIN sections
    /\ Len(sections'[t]) = Len(sections[t]) + 1
    /\ sections' = DictSet(sections, t, Append(sections[t], sections'[t][Len(sections'[t])]))

CursorUnchanged == UNCHANGED <<current_section, current_headers>>

\* C6 as stated: a Data row with tag T read after some Header row with tag T
\* becomes a record under the last Header row with tag T, whatever Header rows
\* of other sections came in between.  (Stated for Header rows that declare
\* field names; a Header row without any is the case of C9.)
C6_DataRowUsesHeaderOfItsTag ==
    [][LET rw == row'
       IN  IsDataRow(rw) =>
             LET t == Strip(rw[1])
                 j == LastHeaderOfTag(lines, t)
             IN  (j > 0 /\ Drop(lines[j], 2) # <<>>)
                    => AppendsTo(t, RecordUnder(lines[j], rw))]_vars

\* C6 amended: a Data row with tag T becomes a record under the last Header
\* row read, provided that row has tag T and declares at least one field
\* name; when the last Header row read has another tag or no field names,
\* the Data row is dropped.
C6_DataRowUsesLastHeader ==
    [][LET rw == row'
       IN  IsDataRow(rw) =>
             LET t == Strip(rw[1])
                 j == LastHeader(lines)
             IN  IF j > 0 /\ Strip(lines[j][1]) = t /\ Drop(lines[j], 2) # <<>>
                 THEN AppendsTo(t, RecordUnder(lines[j], rw))
                 ELSE sections' = sections]_vars

\* a Data row of T was turned into a record under a second Header row of T
C6_Witness ==
    /\ Len(lines) = 3
    /\ IsHeaderRow(lines[1]) /\ IsHeaderRow(lines[2]) /\ IsDataRow(row)
    /\ lines[1] # lines[2]
    /\ Strip(lines[1][1]) = TagT /\ Strip(lines[2][1]) = TagT /\ Strip(row[1]) = TagT
    /\ Len(sections[TagT]) = 1
    /\ sections[TagT][1] = RecordUnder(lines[2], row)
    /\ sections[TagT][1] # RecordUnder(lines[1], row)

\* C9 as stated: a row that is no Header row is appended to its section's
\* list exactly when it is a Data row whose tag is that of the last Header
\* row read (a Header row with zero field names counts); every other such
\* row leaves the result mapping and the cursor unchanged.
C9_DataAcceptedIffTagMatches ==
    [][LET rw == row'
           j == LastHeader(lines)
       IN  ~IsHeaderRow(rw) =>
             IF IsDataRow(rw) /\ j > 0 /\ Strip(lines[j][1]) = Strip(rw[1])
             THEN AppendsOneTo(Strip(rw[1])) /\ CursorUnchanged
             ELSE sections' = sections /\ CursorUnchanged]_vars

\* C9 amended: ... exactly when it is a Data row whose tag is that of the
\* last Header row read and that Header row declared at least one field
\* name; every other row that is no Header row (fewer than 2 fields, Data
\* before any Header, Data of another tag, Data after a Header without field
\* names, unknown kind) leaves the result mapping and the cursor unchanged.
C9_DataAcceptedIffTagMatchesNonEmpty ==
    [][LET rw == row'
           j == LastHeader(lines)
       IN  ~IsHeaderRow(rw) =>
             IF /\ IsDataRow(rw) /\ j > 0 /\ Strip(lines[j][1]) = Strip(rw[1])
                /\ Drop(lines[j], 2) # <<>>
             THEN AppendsOneTo(Strip(rw[1])) /\ CursorUnchanged
             ELSE sections' = sections /\ CursorUnchanged]_vars

\* a Data row was dropped after a Header row of its tag without field names,
\* and another was accepted after a Header row with field names
C9_Witness ==
    /\ Len(lines) = 3
    /\ IsHeaderRow(lines[1]) /\ Strip(lines[1][1]) = TagT /\ Drop(lines[1], 2) # <<>>
    /\ IsDataRow(lines[2]) /\ Strip(lines[2][1]) = TagT
    /\ IsDataRow(row) /\ Strip(row[1]) = TagU
    /\ Len(sections[TagT]) = 1
    /\ TagU \notin DOMAIN sections

\* what the rows read so far registered: the tag of every Header row read is
\* in the mapping, with an empty list when no Data row of that tag was read
RegisteredTags ==
    \A i \in 1..Len(lines) :
        IsHeaderRow(lines[i]) =>
            LET t == Strip(lines[i][1])
            IN  /\ t \in DOMAIN sections
                /\ (\A k \in 1..Len(lines) :
                        ~(IsDataRow(lines[k]) /\ Strip(lines[k][1]) = t))
                   => sections[t] = <<>>

\* C10: every step keeps each section's list as a prefix of the new one; a
\* Header row of a registered tag leaves the mapping as it is, a Header row
\* of a new tag registers it with an empty list; and a registered tag stays
\* in the mapping, with an empty list while no Data row of it was read.
C10_SectionsAppendOnly ==
    [][/\ \A t \in DOMAIN sections :
            /\ t \in DOMAIN sections'
            /\ Len(sections'[t]) >= Len(sections[t])
            /\ SubSeq(sections'[t], 1, Len(sections[t])) = sections[t]
       /\ IsHeaderRow(row') =>
            LET t == Strip(row'[1])
            IN  IF t \in DOMAIN sections
                THEN sections' = sections
                ELSE sections' = DictSet(sections, t, <<>>)
       /\ RegisteredTags']_vars

\* a second Header row of a tag was read while the tag held a record
C10_Witness ==
    /\ Len(lines) = 3
    /\ IsHeaderRow(lines[1]) /\ IsDataRow(lines[2]) /\ IsHeaderRow(row)
    /\ Strip(lines[1][1]) = TagT /\ Strip(row[1]) = TagT
    /\ lines[1] # row
    /\ Len(sections[TagT]) = 1
    /\ TagU \notin DOMAIN sections

----------------------------------------------------------------------------
(* Properties of main, checked under Spec *)

\* the list the run hands to the writer: deduped once the loop of lines
\* 272-276 has run
Merging == pc \in {"sort", "write", "done"}

\* the position of the first record of ins with the key k
FirstWithKey(ins, k) ==
    CHOOSE i \in 1..Len(ins) :
        /\ Key(ins[i]) = k
        /\ \A j \in 1..(i - 1) : Key(ins[j]) # k

\* outs holds exactly one record per key of ins, the first record of ins
\* with that key, and nothing else
KeepsFirstOccurrences(outs, ins) ==
    /\ \A i \in 1..Len(ins) :
        LET k == Key(ins[i])
            at == {j \in 1..Len(outs) : Key(outs[j]) = k}
        IN  /\ Cardinality(at) = 1
            /\ \A j \in at : outs[j] = ins[FirstWithKey(ins, k)]
    /\ \A j \in 1..Len(outs) : \E i \in 1..Len(ins) : Key(outs[j]) = Key(ins[i])

\* a <= b in the lexicographic order of the code points
LexLeq(a, b) ==
    \/ Len(a) <= Len(b) /\ SubSeq(b, 1, Len(a)) = a
    \/ \E k \in 1..Len(a) :
        /\ k <= Len(b)
        /\ SubSeq(a, 1, k - 1) = SubSeq(b, 1, k - 1)
        /\ Ord(a[k]) < Ord(b[k])

\* outs is in ascending order of Closing Time, the empty ones first, and
\* records of equal Closing Time stand as their first occurrences do in ins
SortedStably(outs, ins) ==
    /\ \A i \in 1..(Len(outs) - 1) : LexLeq(outs[i].ClosingTime, outs[i + 1].ClosingTime)
    /\ \A i, j \in 1..Len(outs) :
        (i < j /\ outs[j].ClosingTime = <<>>) => outs[i].ClosingTime = <<>>
    /\ \A i, j \in 1..Len(outs) :
        (i < j /\ outs[i].ClosingTime = outs[j].ClosingTime)
            => FirstWithKey(ins, Key(outs[i])) < FirstWithKey(ins, Key(outs[j]))

\* C1: the merge keeps exactly one record per identity key (Symbol, Side,
\* Qty, Fill Price, Closing Time) of the concatenated input, the first one in
\* file-then-row order, with the Commission of that first one.
C1_FirstOccurrenceKept ==
    /\ Merging => KeepsFirstOccurrences(deduped, all_rows)
    /\ output.some => KeepsFirstOccurrences(output.val, all_rows)

\* two files' records share a key and differ in Commission; one was written
C1_Witness ==
    /\ pc = "done" /\ nfiles = 2 /\ Len(all_rows) = 3 /\ Len(output.val) = 2
    /\ \E i, j \in 1..3 :
        /\ i < j
        /\ Key(all_rows[i]) = Key(all_rows[j])
        /\ all_rows[i].Commission # all_rows[j].Commission
        /\ \E k \in 1..2 : output.val[k] = all_rows[i]

\* C2: the merged output is in ascending lexicographic order of Closing
\* Time, records without Closing Time first, and records of equal Closing
\* Time keep the order they have in the deduplicated input.
C2_SortedByClosingTimeStable ==
    /\ pc \in {"write", "done"} => SortedStably(deduped, all_rows)
    /\ output.some => SortedStably(output.val, all_rows)

\* the sort moved a record without Closing Time in front of two records of
\* one Closing Time
C2_Witness ==
    /\ pc = "done" /\ Len(output.val) = 3
    /\ output.val[1].ClosingTime = <<>>
    /\ output.val[2].ClosingTime = output.val[3].ClosingTime
    /\ output.val[1] = all_rows[3]
    /\ output.val[2] = all_rows[1]

Sides == {"Buy", "Sell", "Deposit", "Withdrawal", "Dividend", "Taxes and fees"}

WellFormed(recs) ==
    \A i \in 1..Len(recs) : NonNegative(recs[i].Qty) /\ recs[i].Side \in Sides

\* C3: every record the converters emit, and so every merged record, has
\* Qty >= 0 and a Side of the fixed enumeration.
C3_QtyNonNegativeSideValid ==
    /\ WellFormed(rows)
    /\ WellFormed(all_rows)
    /\ WellFormed(deduped)
    /\ output.some => WellFormed(output.val)

\* C4: the output exists only once every input has been converted and the
\* merge of all their records is complete; a run that aborts (unreadable
\* file, unparsable number on a row that passed the filters) has written
\* no output.
C4_OutputOnlyAfterMerge ==
    /\ output.some =>
        /\ pc = "done" /\ stage = 0 /\ nfiles >= 1
        /\ output.val = deduped
        /\ KeepsFirstOccurrences(deduped, all_rows)
        /\ SortedStably(deduped, all_rows)
    /\ pc # "done" => ~output.some

\* after one file was converted, a trade of the second file that passed the
\* filters has an unparsable quantity: the run is aborted without output
C4_Witness ==
    /\ pc = "aborted" /\ nfiles = 1 /\ all_rows # <<>> /\ stage = 1
    /\ GetOr(r, DataDiscriminator, <<>>) = Order
    /\ GetOr(r, AssetClass, <<>>) = Stock
    /\ Quantity \in DOMAIN r
    /\ ~ParseFloat(r[Quantity], 0).ok
    /\ ~output.some

\* lines 270-279 as a function of the list
Merge(ins) == SortByTime(<<>>, DedupRows({}, <<>>, ins))

\* C7: the merge of X followed by X is the merge of X, and the merge of a
\* merged list is that list (X the records of the run, the merged list its
\* output).
C7_MergeIdempotent ==
    pc = "done" =>
        /\ Merge(all_rows \o all_rows) = output.val
        /\ Merge(output.val) = output.val

\* a run whose merge dropped a duplicate and reordered the rest
C7_Witness ==
    /\ pc = "done" /\ Len(all_rows) = 3 /\ Len(output.val) = 2
    /\ output.val[1] = all_rows[3]

\* the step is one iteration of convert_trades over a record that passed the
\* two filters and whose columns are there and parse
TradeStepOver(rr) ==
    /\ stage' = 1 /\ nrecs' = nrecs + 1
    /\ GetOr(rr, DataDiscriminator, <<>>) = Order
    /\ GetOr(rr, AssetClass, <<>>) = Stock
    /\ {Code, Currency, Quantity, TradePrice, CommTax, DateTime} \subseteq DOMAIN rr
    /\ ParseFloat(rr[Quantity], 0).ok
    /\ (Strip(rr[CommTax]) = <<>> \/ ParseFloat(rr[CommTax], 0).ok)

\* the step appends exactly one record, of the magnitude of q
EmitsMagnitude(q) ==
    /\ Len(rows') = Len(rows) + 1
    /\ SubSeq(rows', 1, Len(rows)) = rows
    /\ LET e == rows'[Len(rows')]
       IN  IF q.nan THEN e.Qty.nan ELSE e.Qty = Float(IF q.v < 0 THEN -q.v ELSE q.v)

\* C8 as stated: a trade that passed the filters gives exactly one record,
\* Qty the magnitude of the quantity, Side Buy exactly when the quantity is
\* positive and Sell exactly when it is negative.  (Stated for records whose
\* quantity parses to a number; an unparsable one aborts the run, C4, and
\* a NaN is the case of C3.)
C8_SideBuyIffPositiveSellIffNegative ==
    [][(TradeStepOver(r') /\ ~ParseFloat(r'[Quantity], 0).f.nan) =>
        LET q == ParseFloat(r'[Quantity], 0).f
        IN  /\ EmitsMagnitude(q)
            /\ rows'[Len(rows')].Side = "Buy" <=> Positive(q)
            /\ rows'[Len(rows')].Side = "Sell" <=> (~q.nan /\ q.v < 0)]_vars

\* the step is one iteration of convert_trades over a record that passed the
\* two filters and lacks a column or holds a number that does not parse
TradeStepFailingOn(rr) ==
    /\ stage' = 1 /\ nrecs' = nrecs + 1
    /\ GetOr(rr, DataDiscriminator, <<>>) = Order
    /\ GetOr(rr, AssetClass, <<>>) = Stock
    /\ \/ ~({Code, Currency, Quantity, TradePrice, CommTax, DateTime} \subseteq DOMAIN rr)
       \/ ~ParseFloat(rr[Quantity], 0).ok
       \/ Strip(rr[CommTax]) # <<>> /\ ~ParseFloat(rr[CommTax], 0).ok

\* C8 amended: a trade that passed the filters and whose quantity and
\* commission parse gives exactly one record, Qty the magnitude of the
\* quantity, Side Buy exactly when the quantity is positive and Sell in every
\* other case (negative, zero, NaN); one whose quantity or commission does
\* not parse gives no record and aborts the run.
C8_SideBuyIffPositiveElseSell ==
    [][/\ TradeStepOver(r') =>
            LET q == ParseFloat(r'[Quantity], 0).f
            IN  /\ EmitsMagnitude(q)
                /\ rows'[Len(rows')].Side = IF Positive(q) THEN "Buy" ELSE "Sell"
                /\ pc' = pc
       /\ TradeStepFailingOn(r') => rows' = rows /\ pc' = "aborted"]_vars

\* a trade of quantity 0 was emitted as Sell with Qty 0, after a Buy
C8_Witness ==
    /\ stage = 1 /\ Len(rows) = 2
    /\ Quantity \in DOMAIN r /\ Strip(r[Quantity]) = <<"0">>
    /\ rows[1].Side = "Buy" /\ rows[1].Qty = Float(1)
    /\ rows[2].Side = "Sell" /\ rows[2].Qty = Float(0)

====
